---- MODULE Spec2Model ----
(***************************************************************************)
(* Model of the Strategic Priorities Roadmap dashboard (src/main.py).     *)
(*                                                                         *)
(* The script is re-executed from top to bottom on every user interaction *)
(* (a file upload, a change of a sidebar widget).  One action of the model *)
(* is one such execution; the variables are the script's variables as     *)
(* they stand when the execution ends (normally, by st.stop(), or by an   *)
(* uncaught exception).                                                    *)
(*                                                                         *)
(* Text values are tuples of one-character strings, so that str.strip(),  *)
(* string comparison (sorted, sort_index) and date parsing are computed.  *)
(***************************************************************************)
EXTENDS Integers, Sequences, FiniteSets, TLC

\* ------------------------------------------------------------------ bounds

\* Longest sheet (data rows) of the general, the tool and the priority files.
MaxRows == 2
MaxToolRows == 6
MaxPriorityRows == 4

\* ------------------------------------------------------- program constants

\* tool_counts ... .head(5)
TopN == 5
\* row['Name'][:50] + '...'
TaskLen == 50
\* pd.DateOffset(months=3)
OffsetMonths == 3

\* -------------------------------------------------------------------- text

\* A missing cell (numpy.nan).  It is a float, not a text: no text equals it,
\* since every text is a tuple of one-character strings.
NaN == <<"NaN">>

\* Missing datetime (pandas.NaT).
NaT == [y |-> 0, m |-> 0, d |-> 0]

\* Code point of a character (Python compares strings by code point).
ord(c) ==
    CASE c = " " -> 32 [] c = "#" -> 35 [] c = "-" -> 45 [] c = "." -> 46
      [] c = "0" -> 48 [] c = "1" -> 49 [] c = "2" -> 50 [] c = "3" -> 51
      [] c = "4" -> 52 [] c = "5" -> 53 [] c = "6" -> 54 [] c = "7" -> 55
      [] c = "8" -> 56 [] c = "9" -> 57
      [] c = "A" -> 65 [] c = "B" -> 66 [] c = "C" -> 67 [] c = "D" -> 68
      [] c = "E" -> 69 [] c = "F" -> 70 [] c = "G" -> 71 [] c = "I" -> 73
      [] c = "N" -> 78 [] c = "P" -> 80 [] c = "Q" -> 81 [] c = "R" -> 82
      [] c = "S" -> 83 [] c = "T" -> 84 [] c = "X" -> 88 [] c = "Y" -> 89
      [] c = "Z" -> 90
      [] c = "a" -> 97 [] c = "b" -> 98 [] c = "c" -> 99 [] c = "d" -> 100
      [] c = "e" -> 101 [] c = "g" -> 103 [] c = "h" -> 104 [] c = "i" -> 105
      [] c = "k" -> 107 [] c = "l" -> 108 [] c = "m" -> 109 [] c = "n" -> 110
      [] c = "o" -> 111 [] c = "q" -> 113 [] c = "r" -> 114 [] c = "s" -> 115
      [] c = "t" -> 116 [] c = "u" -> 117 [] c = "y" -> 121

\* Characters str.strip() removes.
IsSpace(c) == c \in {" ", "\t", "\n", "\r"}

RECURSIVE lstrip(_)
lstrip(s) == IF s # <<>> /\ IsSpace(Head(s)) THEN lstrip(Tail(s)) ELSE s

RECURSIVE rstrip(_)
rstrip(s) ==
    IF s # <<>> /\ IsSpace(s[Len(s)]) THEN rstrip(SubSeq(s, 1, Len(s) - 1)) ELSE s

\* str.strip()
strip(s) == rstrip(lstrip(s))

\* s < t for Python strings.
RECURSIVE StrLess(_, _)
StrLess(s, t) ==
    IF t = <<>> THEN FALSE
    ELSE IF s = <<>> THEN TRUE
    ELSE IF ord(Head(s)) # ord(Head(t)) THEN ord(Head(s)) < ord(Head(t))
    ELSE StrLess(Tail(s), Tail(t))

\* sorted(S) for a set of texts.
RECURSIVE sorted(_)
sorted(S) ==
    IF S = {} THEN <<>>
    ELSE LET least == CHOOSE x \in S : \A y \in S \ {x} : StrLess(x, y)
         IN  <<least>> \o sorted(S \ {least})

Range(s) == {s[i] : i \in DOMAIN s}

\* The texts of the program.
All == <<"A", "l", "l">>
EmptyStr == <<>>
Name == <<"N", "a", "m", "e">>
Requesting_Stakeholder ==
    <<"R", "e", "q", "u", "e", "s", "t", "i", "n", "g", " ",
      "S", "t", "a", "k", "e", "h", "o", "l", "d", "e", "r">>
Quarter_Date == <<"Q", "u", "a", "r", "t", "e", "r", " ", "D", "a", "t", "e">>
Tool_Name == <<"T", "o", "o", "l", " ", "N", "a", "m", "e">>
Status == <<"S", "t", "a", "t", "u", "s">>
Total_Priority_Score ==
    <<"T", "o", "t", "a", "l", " ", "P", "r", "i", "o", "r", "i", "t", "y", " ",
      "S", "c", "o", "r", "e">>

\* A quarter label 'Qq yyyy' and an ISO date 'yyyy-mm-dd' as texts.
Quarter(q, y1, y2, y3, y4) == <<"Q", q, " ", y1, y2, y3, y4>>
IsoDate(y1, y2, y3, y4, m1, m2, d1, d2) ==
    <<y1, y2, y3, y4, "-", m1, m2, "-", d1, d2>>

Q1_2025 == Quarter("1", "2", "0", "2", "5")
Q2_2025 == Quarter("2", "2", "0", "2", "5")
Q3_2025 == Quarter("3", "2", "0", "2", "5")
Q4_2025 == Quarter("4", "2", "0", "2", "5")
Q1_2026 == Quarter("1", "2", "0", "2", "6")
Q2_2026 == Quarter("2", "2", "0", "2", "6")
Q3_2026 == Quarter("3", "2", "0", "2", "6")
Q4_2026 == Quarter("4", "2", "0", "2", "6")
Q5_2099 == Quarter("5", "2", "0", "9", "9")

\* quarter_mapping
quarter_mapping ==
    (Q1_2025 :> IsoDate("2", "0", "2", "5", "0", "3", "3", "1")) @@
    (Q2_2025 :> IsoDate("2", "0", "2", "5", "0", "6", "3", "0")) @@
    (Q3_2025 :> IsoDate("2", "0", "2", "5", "0", "9", "3", "0")) @@
    (Q4_2025 :> IsoDate("2", "0", "2", "5", "1", "2", "3", "1")) @@
    (Q1_2026 :> IsoDate("2", "0", "2", "6", "0", "3", "3", "1")) @@
    (Q2_2026 :> IsoDate("2", "0", "2", "6", "0", "6", "3", "0")) @@
    (Q3_2026 :> IsoDate("2", "0", "2", "6", "0", "9", "3", "0")) @@
    (Q4_2026 :> IsoDate("2", "0", "2", "6", "1", "2", "3", "1"))

\* Series.map(dict): the dict's value, NaN for a key the dict lacks.
map_dict(key, dict) == IF key \in DOMAIN dict THEN dict[key] ELSE NaN

IsDigits(s) == s # <<>> /\ \A i \in DOMAIN s : ord(s[i]) \in 48..57

\* The number a text of decimal digits denotes.
RECURSIVE ParseDigits(_)
ParseDigits(s) ==
    IF s = <<>> THEN 0
    ELSE 10 * ParseDigits(SubSeq(s, 1, Len(s) - 1)) + (ord(s[Len(s)]) - 48)

IsLeap(y) == (y % 4 = 0 /\ y % 100 # 0) \/ y % 400 = 0

DaysInMonth(y, m) ==
    IF m = 2 THEN (IF IsLeap(y) THEN 29 ELSE 28)
    ELSE IF m \in {4, 6, 9, 11} THEN 30 ELSE 31

\* pd.to_datetime(value, errors='coerce') of one cell: a 'yyyy-mm-dd' text
\* that names a calendar day is that day, anything else is NaT.
to_datetime(v) ==
    IF v = NaN \/ Len(v) # 10 THEN NaT
    ELSE IF ~(IsDigits(SubSeq(v, 1, 4)) /\ v[5] = "-" /\ IsDigits(SubSeq(v, 6, 7))
              /\ v[8] = "-" /\ IsDigits(SubSeq(v, 9, 10))) THEN NaT
    ELSE LET y == ParseDigits(SubSeq(v, 1, 4))
             m == ParseDigits(SubSeq(v, 6, 7))
             d == ParseDigits(SubSeq(v, 9, 10))
         IN  IF m \in 1..12 /\ d >= 1 /\ d <= DaysInMonth(y, m)
             THEN [y |-> y, m |-> m, d |-> d] ELSE NaT

\* Mutant of MinusMonths: the day of the month is not clipped to the month
\* reached.
MinusMonthsUnclipped(date, n) ==
    IF date = NaT THEN NaT
    ELSE LET mi == date.y * 12 + (date.m - 1) - n
         IN  [y |-> mi \div 12, m |-> (mi % 12) + 1, d |-> date.d]

\* date - pd.DateOffset(months=n): the month moves back n months, the day of
\* the month is kept, clipped to the length of the month reached; NaT stays.
MinusMonths(date, n) ==
    IF date = NaT THEN NaT
    ELSE LET mi == date.y * 12 + (date.m - 1) - n
             y  == mi \div 12
             m  == (mi % 12) + 1
             dm == DaysInMonth(y, m)
         IN  [y |-> y, m |-> m, d |-> IF date.d < dm THEN date.d ELSE dm]

\* status_colors, and .map(status_colors).fillna('#D3D3D3')
status_colors ==
    (<<"B", "u", "d", "g", "e", "t", " ", "E", "v", "a", "l", "u", "a", "t", "i", "o", "n">>
        :> "#FFA500") @@
    (<<"E", "v", "a", "l", "u", "a", "t", "i", "n", "g">> :> "#87CEEB") @@
    (<<"I", "n", " ", "P", "r", "o", "g", "r", "e", "s", "s">> :> "#32CD32") @@
    (<<"C", "o", "m", "p", "l", "e", "t", "e", "d">> :> "#228B22") @@
    (<<"O", "n", " ", "H", "o", "l", "d">> :> "#FF6347") @@
    (<<"P", "l", "a", "n", "n", "i", "n", "g">> :> "#9370DB") @@
    (EmptyStr :> "#D3D3D3")

Color(status) ==
    IF status \in DOMAIN status_colors THEN status_colors[status] ELSE "#D3D3D3"

\* ------------------------------------------------------------------- cells

\* Cells of 'Total Priority Score': a number, a text, or missing.
Num(n) == [t |-> "num", n |-> n, s |-> <<>>]
Txt(s) == [t |-> "str", n |-> 0, s |-> s]
NoScore == [t |-> "nan", n |-> 0, s |-> <<>>]

\* pd.to_numeric(cell, errors='coerce'): a number is itself, a text of digits
\* is the number it denotes, every other text (and a missing cell) is NaN.
to_numeric(c) ==
    IF c.t = "num" THEN c
    ELSE IF c.t = "str" /\ IsDigits(strip(c.s)) THEN Num(ParseDigits(strip(c.s)))
    ELSE NoScore

\* astype(str) of a text cell.
astype_str(v) == IF v = NaN THEN <<"n", "a", "n">> ELSE v

\* The keys of a sheet's columns, in the order of display_columns.
Keys == {"Name", "Stakeholder", "Quarter", "Tool", "Status", "Score"}

\* The label every key has in a well-formed sheet.
Label ==
    [Name |-> Name, Stakeholder |-> Requesting_Stakeholder, Quarter |-> Quarter_Date,
     Tool |-> Tool_Name, Status |-> Status, Score |-> Total_Priority_Score]

\* 'label' in df.columns
HasColumn(columns, label) == \E k \in DOMAIN columns : columns[k] = label

\* row[label]
Cell(row, columns, label) == row[CHOOSE k \in DOMAIN columns : columns[k] = label]

\* ------------------------------------------------------ load_and_process_data

\* pd.read_excel(...): the sheet's rows under the pandas index 0, 1, ...
read_excel(file) ==
    [i \in DOMAIN file.rows |->
        [idx |-> i - 1, Name |-> file.rows[i].Name,
         Stakeholder |-> file.rows[i].Stakeholder, Quarter |-> file.rows[i].Quarter,
         Tool |-> file.rows[i].Tool, Status |-> file.rows[i].Status,
         Score |-> file.rows[i].Score]]

\* df.dropna(subset=['Name'])
dropna_Name(rows, columns) ==
    LET Keep(r) == Cell(r, columns, Name) # NaN IN SelectSeq(rows, Keep)

\* Mutant of nonblank_Name: the name is compared without being stripped.
nonblank_Name_unstripped(rows, columns) ==
    LET Keep(r) == Cell(r, columns, Name) # EmptyStr IN SelectSeq(rows, Keep)

\* df[df['Name'].str.strip() != '']
nonblank_Name(rows, columns) ==
    LET Keep(r) == strip(Cell(r, columns, Name)) # EmptyStr IN SelectSeq(rows, Keep)

\* df.columns.str.strip()
strip_columns(columns) == [k \in DOMAIN columns |-> strip(columns[k])]

\* df.fillna(''): every missing cell becomes the empty text.
fillna(rows) ==
    LET fill(v) == IF v = NaN THEN EmptyStr ELSE v
        fill_score(c) == IF c = NoScore THEN Txt(EmptyStr) ELSE c
    IN  [i \in DOMAIN rows |->
            [rows[i] EXCEPT !.Name = fill(@), !.Stakeholder = fill(@),
                            !.Quarter = fill(@), !.Tool = fill(@),
                            !.Status = fill(@), !.Score = fill_score(@)]]

\* Lines 45-79 for one row: Timeline, End_Date, Start_Date, Color,
\* Priority_Numeric.  A column the sheet lacks is read only after the
\* caller has found it present.
derive(r, columns) ==
    LET Timeline == astype_str(Cell(r, columns, Quarter_Date))
        End_Date == to_datetime(map_dict(Timeline, quarter_mapping))
    IN  [idx |-> r.idx, Name |-> r.Name, Stakeholder |-> r.Stakeholder,
         Quarter |-> r.Quarter, Tool |-> r.Tool, Status |-> r.Status,
         Score |-> r.Score,
         Timeline |-> Timeline,
         End_Date |-> End_Date,
         Start_Date |-> MinusMonths(End_Date, OffsetMonths),
         Color |-> IF HasColumn(columns, Status)
                   THEN Color(Cell(r, columns, Status)) ELSE "",
         Priority_Numeric |->
             IF HasColumn(columns, Total_Priority_Score)
             THEN to_numeric(Cell(r, columns, Total_Priority_Score))
             ELSE NoScore]

\* The outcome of load_and_process_data(file): the line of the exception that
\* ends it (0: none), and the frame it returns.
Raised(line) == [exc |-> line, df |-> <<>>, columns |-> <<>>]

load_and_process_data(file) ==
    IF ~file.readable THEN Raised(32)
    ELSE IF ~HasColumn(file.header, Name) THEN Raised(35)
    ELSE LET raw == read_excel(file)
             \* A 'Name' column with rows and no text in it is read as float64,
             \* and the .str accessor refuses a float64 Series.
             float_names == raw # <<>> /\ \A i \in DOMAIN raw :
                                Cell(raw[i], file.header, Name) = NaN
             named == dropna_Name(raw, file.header)
         IN  IF float_names THEN Raised(36)
             ELSE LET columns == strip_columns(file.header)
                      filled == fillna(nonblank_Name(named, file.header))
                  IN  IF ~HasColumn(columns, Quarter_Date) THEN Raised(45)
                      ELSE IF ~HasColumn(columns, Status) THEN Raised(76)
                      ELSE IF ~HasColumn(columns, Total_Priority_Score) THEN Raised(79)
                      ELSE [exc |-> 0,
                            df |-> [i \in DOMAIN filled |-> derive(filled[i], columns)],
                            columns |-> columns]

\* Mutant of load_failed: only a missing frame fails, an empty one passes.
load_failed_none_only(df) == FALSE

\* Line 91: df is None or df.empty
load_failed(df) == df = <<>>

\* ----------------------------------------------------------- sidebar filters

\* ['All'] + sorted(df[column].unique())
options(values) == <<All>> \o sorted(values)

\* Lines 113-114.
filter_timeline(rows, timeline) ==
    LET Keep(r) == r.Timeline = timeline
    IN  IF timeline # All THEN SelectSeq(rows, Keep) ELSE rows

\* Mutant of filter_status: 'All' is treated as a status like any other.
filter_status_always(rows, statuses) ==
    LET Keep(r) == r.Status \in statuses
    IN  IF statuses # {} THEN SelectSeq(rows, Keep) ELSE rows

\* Lines 116-117.
filter_status(rows, statuses) ==
    LET Keep(r) == r.Status \in statuses
    IN  IF All \notin statuses /\ statuses # {} THEN SelectSeq(rows, Keep) ELSE rows

\* Lines 119-120.
filter_stakeholder(rows, stakeholder) ==
    LET Keep(r) == r.Stakeholder = stakeholder
    IN  IF stakeholder # All THEN SelectSeq(rows, Keep) ELSE rows

\* Lines 111-120.
apply_filters(rows, timeline, statuses, stakeholder) ==
    filter_stakeholder(filter_status(filter_timeline(rows, timeline), statuses),
                       stakeholder)

\* -------------------------------------------------------------- main content

\* Mutant of value_counts: the empty text is dropped like a missing value.
value_counts_nonempty(values) ==
    [v \in Range(values) \ {NaN, EmptyStr} |->
        Cardinality({i \in DOMAIN values : values[i] = v})]

\* Series.value_counts() as the mapping from each value to the number of its
\* rows; a missing value (NaN) is not counted (dropna=True).
value_counts(values) ==
    [v \in Range(values) \ {NaN} |-> Cardinality({i \in DOMAIN values : values[i] = v})]

\* len(filtered_df[filtered_df['Status'] == status])
count_status(rows, status) == Cardinality({i \in DOMAIN rows : rows[i].Status = status})

\* Lines 125-140: the four summary metrics.
summary_metrics(rows) ==
    [Total_Items |-> Len(rows),
     Budget_Evaluation |-> count_status(rows,
        <<"B", "u", "d", "g", "e", "t", " ", "E", "v", "a", "l", "u", "a", "t", "i", "o", "n">>),
     Evaluating |-> count_status(rows, <<"E", "v", "a", "l", "u", "a", "t", "i", "n", "g">>),
     In_Progress |-> count_status(rows, <<"I", "n", " ", "P", "r", "o", "g", "r", "e", "s", "s">>)]

\* pd.notna(row['Start_Date']) and pd.notna(row['End_Date'])
has_dates(r) == r.Start_Date # NaT /\ r.End_Date # NaT

\* row['Name'][:50] + ('...' if len(row['Name']) > 50 else '')
task_label(name) ==
    IF Len(name) > TaskLen THEN SubSeq(name, 1, TaskLen) \o <<".", ".", ".">> ELSE name

\* Mutant of gantt_rows: the rows without dates are charted too.
gantt_rows_unfiltered(rows) ==
    [i \in DOMAIN rows |->
        [Task |-> task_label(rows[i].Name),
         Start |-> rows[i].Start_Date,
         Finish |-> rows[i].End_Date,
         Resource |-> rows[i].Stakeholder,
         Status |-> rows[i].Status,
         Tool |-> rows[i].Tool,
         Timeline |-> rows[i].Timeline,
         Full_Name |-> rows[i].Name]]

\* Lines 146-158: one chart record per row with both dates, in row order.
gantt_rows(rows) ==
    LET dated == SelectSeq(rows, has_dates)
    IN  [i \in DOMAIN dated |->
            [Task |-> task_label(dated[i].Name),
             Start |-> dated[i].Start_Date,
             Finish |-> dated[i].End_Date,
             Resource |-> dated[i].Stakeholder,
             Status |-> dated[i].Status,
             Tool |-> dated[i].Tool,
             Timeline |-> dated[i].Timeline,
             Full_Name |-> dated[i].Name]]

Column(rows, key) == [i \in DOMAIN rows |-> rows[i][key]]

\* Series.sort_index() of a value_counts: the (label, count) pairs in
\* ascending order of the label, compared as a string.
sort_index(counts) ==
    LET labels == sorted(DOMAIN counts)
    IN  [i \in DOMAIN labels |-> <<labels[i], counts[labels[i]]>>]

\* Line 256.
quarterly_distribution(rows) == sort_index(value_counts(Column(rows, "Timeline")))

\* Series.value_counts().head(n): the first n (label, count) pairs in
\* descending order of count.  value_counts sorts with sort_values' default
\* kind, quicksort, which is not stable, so the order among labels of equal
\* count is not fixed by the program: every such order is an outcome.
RECURSIVE head_of_descending(_, _, _)
head_of_descending(counts, labels, n) ==
    IF labels = {} \/ n = 0 THEN {<<>>}
    ELSE LET most == {k \in labels : \A j \in labels : counts[j] <= counts[k]}
         IN  UNION {{<<<<k, counts[k]>>>> \o rest :
                        rest \in head_of_descending(counts, labels \ {k}, n - 1)} :
                    k \in most}

\* Mutant of named_tools: the rows without a tool name are kept.
named_tools_all(rows) == Column(rows, "Tool")

\* Line 262: filtered_df[filtered_df['Tool Name'] != '']['Tool Name']
named_tools(rows) ==
    LET Keep(r) == r.Tool # EmptyStr IN Column(SelectSeq(rows, Keep), "Tool")

\* Line 262: the outcomes of ....value_counts().head(5)
top_tools(rows) ==
    LET counts == value_counts(named_tools(rows))
    IN  head_of_descending(counts, DOMAIN counts, TopN)

\* Line 268: filtered_df.dropna(subset=['Priority_Numeric'])
priority_rows(rows) ==
    LET Keep(r) == r.Priority_Numeric # NoScore IN SelectSeq(rows, Keep)

RECURSIVE SumScores(_)
SumScores(rows) ==
    IF rows = <<>> THEN 0 ELSE Head(rows).Priority_Numeric.n + SumScores(Tail(rows))

\* Line 271: the mean, as the fraction sum / count.
mean_priority(rows) == [sum |-> SumScores(rows), count |-> Len(rows)]

\* Mutant of above: a score equal to the mean counts as high.
above_or_equal(score, mean) == score * mean.count >= mean.sum

\* score > mean
above(score, mean) == score * mean.count > mean.sum

\* Line 272: len(priority_df[priority_df['Priority_Numeric'] > avg_priority])
count_high_priority(rows, mean) ==
    Cardinality({i \in DOMAIN rows : above(rows[i].Priority_Numeric.n, mean)})

\* ------------------------------------------------------------------ script

\* What one execution of the script leaves when nothing of it has run.
Blank ==
    [exception |-> 0, rendered |-> <<>>, df |-> <<>>,
     timeline_options |-> <<>>, status_options |-> <<>>, stakeholder_options |-> <<>>,
     filtered_df |-> <<>>,
     metrics |-> [Total_Items |-> 0, Budget_Evaluation |-> 0, Evaluating |-> 0,
                  In_Progress |-> 0],
     gantt_data |-> <<>>, status_counts |-> <<>>, stakeholder_counts |-> <<>>,
     quarter_dist |-> <<>>, tool_orders |-> {<<>>},
     avg_priority |-> [sum |-> 0, count |-> 0], high_priority |-> 0]

\* Lines 9-25.
Page == <<"title", "file_uploader">>

\* Lines 279-282.
Footer == <<"footer">>

\* Lines 123-282 with a non-empty filtered_df.
main_content(S, columns) ==
    LET rows == S.filtered_df
        shown1 == S.rendered \o <<"metrics", "timeline_subheader">>
        S1 == [S EXCEPT !.metrics = summary_metrics(rows)]
    IN  IF ~HasColumn(columns, Tool_Name) /\ \E i \in DOMAIN rows : has_dates(rows[i])
        THEN [S1 EXCEPT !.exception = 155, !.rendered = shown1]
        ELSE
        LET gantt == IF HasColumn(columns, Tool_Name) THEN gantt_rows(rows) ELSE <<>>
            status_counts == value_counts(Column(rows, "Status"))
            stakeholder_counts == value_counts(Column(rows, "Stakeholder"))
            shown2 == shown1
                \o (IF gantt # <<>> THEN <<"timeline_chart">> ELSE <<>>)
                \o <<"status_subheader">>
                \o (IF DOMAIN status_counts # {} THEN <<"status_pie">> ELSE <<>>)
                \o <<"stakeholder_subheader">>
                \o (IF DOMAIN stakeholder_counts # {} THEN <<"stakeholder_bar">> ELSE <<>>)
                \o <<"detail_subheader">>
            S2 == [S1 EXCEPT !.gantt_data = gantt, !.status_counts = status_counts,
                             !.stakeholder_counts = stakeholder_counts]
        IN  IF ~HasColumn(columns, Tool_Name)
            THEN [S2 EXCEPT !.exception = 232, !.rendered = shown2]
            ELSE
            LET priority_df == priority_rows(rows)
                avg == mean_priority(priority_df)
                shown3 == shown2
                    \o <<"detail_table", "stats_subheader", "quarterly_distribution",
                         "top_tools">>
                    \o (IF priority_df # <<>> THEN <<"priority_insights">> ELSE <<>>)
                    \o Footer
            IN  [S2 EXCEPT
                    !.rendered = shown3,
                    !.quarter_dist = quarterly_distribution(rows),
                    !.tool_orders = top_tools(rows),
                    !.avg_priority = IF priority_df # <<>> THEN avg ELSE @,
                    !.high_priority = IF priority_df # <<>>
                                      THEN count_high_priority(priority_df, avg) ELSE @]

\* Lines 95-282, after a frame with rows was loaded.
sidebar_and_content(df, columns, timeline, statuses, stakeholder) ==
    LET shown == Page \o <<"sidebar_header", "timeline_filter", "status_filter">>
        S0 == [Blank EXCEPT
                  !.df = df,
                  !.timeline_options = options(Range(Column(df, "Timeline"))),
                  !.status_options = options(Range(Column(df, "Status")))]
    IN  IF ~HasColumn(columns, Requesting_Stakeholder)
        THEN [S0 EXCEPT !.exception = 107, !.rendered = shown]
        ELSE
        LET S1 == [S0 EXCEPT
                      !.stakeholder_options = options(Range(Column(df, "Stakeholder"))),
                      !.filtered_df = apply_filters(df, timeline, statuses, stakeholder),
                      !.rendered = shown \o <<"stakeholder_filter">>]
        IN  IF S1.filtered_df # <<>>
            THEN main_content(S1, columns)
            ELSE [S1 EXCEPT !.rendered = @ \o <<"warning">> \o Footer]

\* One execution of the script on an uploaded file with the widgets' values.
script(file, timeline, statuses, stakeholder) ==
    LET loaded == load_and_process_data(file)
    IN  IF loaded.exc # 0
        THEN [Blank EXCEPT !.exception = loaded.exc, !.rendered = Page]
        ELSE IF load_failed(loaded.df)
        THEN [Blank EXCEPT !.rendered = Page \o <<"error">>]
        ELSE sidebar_and_content(loaded.df, loaded.columns, timeline, statuses,
                                 stakeholder)

\* ------------------------------------------------------------------- state

VARIABLES
    uploaded_file,          \* <<>> (None) or <<file>>
    selected_timeline, selected_status, selected_stakeholder,
    exception,              \* line of the uncaught exception that ended the run, or 0
    rendered,               \* the page elements shown, in order
    df, timeline_options, status_options, stakeholder_options,
    filtered_df, metrics, gantt_data, status_counts, stakeholder_counts,
    quarter_dist, tool_counts, avg_priority, high_priority

vars ==
    <<uploaded_file, selected_timeline, selected_status, selected_stakeholder,
      exception, rendered, df, timeline_options, status_options, stakeholder_options,
      filtered_df, metrics, gantt_data, status_counts, stakeholder_counts,
      quarter_dist, tool_counts, avg_priority, high_priority>>

\* The script's variables after the run that left S; S.tool_orders holds the
\* outcomes of value_counts().head(5).
Leaves(S) ==
    /\ exception' = S.exception
    /\ rendered' = S.rendered
    /\ df' = S.df
    /\ timeline_options' = S.timeline_options
    /\ status_options' = S.status_options
    /\ stakeholder_options' = S.stakeholder_options
    /\ filtered_df' = S.filtered_df
    /\ metrics' = S.metrics
    /\ gantt_data' = S.gantt_data
    /\ status_counts' = S.status_counts
    /\ stakeholder_counts' = S.stakeholder_counts
    /\ quarter_dist' = S.quarter_dist
    /\ tool_counts' \in S.tool_orders
    /\ avg_priority' = S.avg_priority
    /\ high_priority' = S.high_priority

\* No file uploaded: lines 87-89 show the hint and stop.
Init ==
    /\ uploaded_file = <<>>
    /\ selected_timeline = All
    /\ selected_status = {All}
    /\ selected_stakeholder = All
    /\ exception = 0
    /\ rendered = Page \o <<"info">>
    /\ df = <<>>
    /\ timeline_options = <<>>
    /\ status_options = <<>>
    /\ stakeholder_options = <<>>
    /\ filtered_df = <<>>
    /\ metrics = Blank.metrics
    /\ gantt_data = <<>>
    /\ status_counts = <<>>
    /\ stakeholder_counts = <<>>
    /\ quarter_dist = <<>>
    /\ tool_counts = <<>>
    /\ avg_priority = Blank.avg_priority
    /\ high_priority = 0

\* The user uploads a file; the widgets hold their defaults.
Upload(file) ==
    /\ uploaded_file = <<>>
    /\ uploaded_file' = <<file>>
    /\ UNCHANGED <<selected_timeline, selected_status, selected_stakeholder>>
    /\ Leaves(script(file, selected_timeline, selected_status, selected_stakeholder))

\* The user picks a quarter in the selectbox the last run showed.
SelectTimeline ==
    /\ uploaded_file # <<>>
    /\ \E t \in Range(timeline_options) :
        /\ t # selected_timeline
        /\ selected_timeline' = t
        /\ Leaves(script(uploaded_file[1], t, selected_status, selected_stakeholder))
    /\ UNCHANGED <<uploaded_file, selected_status, selected_stakeholder>>

\* The user changes the multiselect to any set of its options.
SelectStatus ==
    /\ uploaded_file # <<>>
    /\ status_options # <<>>
    /\ \E st \in SUBSET Range(status_options) :
        /\ st # selected_status
        /\ selected_status' = st
        /\ Leaves(script(uploaded_file[1], selected_timeline, st, selected_stakeholder))
    /\ UNCHANGED <<uploaded_file, selected_timeline, selected_stakeholder>>

\* The user picks a stakeholder in the selectbox the last run showed.
SelectStakeholder ==
    /\ uploaded_file # <<>>
    /\ \E sh \in Range(stakeholder_options) :
        /\ sh # selected_stakeholder
        /\ selected_stakeholder' = sh
        /\ Leaves(script(uploaded_file[1], selected_timeline, selected_status, sh))
    /\ UNCHANGED <<uploaded_file, selected_timeline, selected_status>>

\* The user removes the file: the widgets are gone, the hint is back.
RemoveFile ==
    /\ uploaded_file # <<>>
    /\ uploaded_file' = <<>>
    /\ selected_timeline' = All
    /\ selected_status' = {All}
    /\ selected_stakeholder' = All
    /\ Leaves([Blank EXCEPT !.rendered = Page \o <<"info">>])

\* ------------------------------------------------------------ uploaded files

In_Progress == <<"I", "n", " ", "P", "r", "o", "g", "r", "e", "s", "s">>
Ann == <<"A", "n", "n">>
Bob == <<"B", "o", "b">>

\* One row of a sheet.
Row(name, stakeholder, quarter, tool, status, score) ==
    [Name |-> name, Stakeholder |-> stakeholder, Quarter |-> quarter, Tool |-> tool,
     Status |-> status, Score |-> score]

\* A readable sheet with the given header and rows.
Sheet(header, rows) == [readable |-> TRUE, header |-> header, rows |-> rows]

\* A file read_excel cannot parse.
Unreadable == [readable |-> FALSE, header |-> <<>>, rows |-> <<>>]

\* The sequences of at most n elements of S.
SeqUpTo(S, n) == UNION {[1..k -> S] : k \in 0..n}

\* Sheets that differ in the names: missing, empty, blank, padded, plain.
NameRows ==
    {Row(n, Ann, Q1_2025, <<"A">>, In_Progress, Num(1)) :
        n \in {NaN, EmptyStr, <<" ">>, <<"X">>, <<" ", "Y", " ">>}}

\* Sheets that differ in quarter, status and stakeholder.
FilterRows ==
    {Row(<<"X">>, sh, q, <<"A">>, st, Num(1)) :
        sh \in {Ann, Bob}, q \in {Q2_2025, Q1_2026, Q5_2099}, st \in {NaN, In_Progress}}

\* One-row sheets: every recognised quarter, a padded label, a missing label,
\* and a name longer than the chart's label.
QuarterRows ==
    {Row(<<"X">>, Ann, q, <<"A">>, <<"Z", "e", "d">>, Txt(<<"a", "b", "c">>)) :
        q \in DOMAIN quarter_mapping \cup {NaN, Q1_2025 \o <<" ">>}}
    \cup {Row([i \in 1..(TaskLen + 1) |-> "X"], Ann, Q4_2026, EmptyStr, In_Progress,
              Num(2))}

\* Headers: complete, one column short, or one label padded with a blank.
Headers ==
    {Label}
    \cup {[k \in Keys \ {gone} |-> Label[k]] : gone \in Keys}
    \cup {[Label EXCEPT ![k] = <<" ">> \o Label[k] \o <<" ">>] : k \in {"Name", "Status"}}

\* Rows of the sheets whose header varies.
HeaderRows ==
    {Row(<<"X">>, Ann, q, <<"A">>, In_Progress, Num(1)) : q \in {Q1_2025, Q5_2099}}

Files ==
    {Unreadable}
    \cup {Sheet(Label, rows) : rows \in SeqUpTo(NameRows, MaxRows)}
    \cup {Sheet(Label, rows) : rows \in SeqUpTo(FilterRows, MaxRows)}
    \cup {Sheet(Label, <<r>>) : r \in QuarterRows}
    \cup {Sheet(h, rows) : h \in Headers, rows \in SeqUpTo(HeaderRows, 1)}

\* Tool names, in the order the tool sheets first mention them.
ToolOrder == <<<<"C">>, <<"A">>, <<"B">>, <<"E">>, <<"D">>, <<"F">>, <<"G">>>>

\* The tool columns of k rows, as indices into ToolOrder (0: an empty cell),
\* each name first met after the names before it in ToolOrder: tool names are
\* only compared for equality, so every other sheet is one of these renamed.
RECURSIVE ToolColumns(_)
ToolColumns(k) ==
    IF k = 0 THEN {<<>>}
    ELSE UNION {{Append(c, t) : t \in 0..(IF Cardinality(Range(c) \ {0}) < Len(ToolOrder)
                                            THEN Cardinality(Range(c) \ {0}) + 1
                                            ELSE Len(ToolOrder))} :
                c \in ToolColumns(k - 1)}

ToolFiles ==
    {Sheet(Label,
           [i \in DOMAIN c |->
               Row(<<"X">>, Ann, Q1_2025, IF c[i] = 0 THEN EmptyStr ELSE ToolOrder[c[i]],
                   In_Progress, Num(1))]) :
        c \in UNION {ToolColumns(k) : k \in 0..MaxToolRows}}

\* Sheets that differ in the priority score: missing, text, digits as text,
\* numbers.
PriorityRows ==
    {Row(<<"X">>, Ann, Q1_2025, <<"A">>, In_Progress, sc) :
        sc \in {NoScore, Txt(<<"a", "b", "c">>), Txt(<<"2">>), Num(1), Num(3)}}

PriorityFiles == {Sheet(Label, rows) : rows \in SeqUpTo(PriorityRows, MaxPriorityRows)}

\* ------------------------------------------------------------ specifications

Next ==
    \/ \E file \in Files : Upload(file)
    \/ SelectTimeline
    \/ SelectStatus
    \/ SelectStakeholder
    \/ RemoveFile

Spec == Init /\ [][Next]_vars

\* The sheets that differ in their tools, shown with the widgets' defaults.
NextTools ==
    \/ \E file \in ToolFiles : Upload(file)
    \/ RemoveFile

SpecTools == Init /\ [][NextTools]_vars

\* The sheets that differ in their priority scores.
NextPriority ==
    \/ \E file \in PriorityFiles : Upload(file)
    \/ SelectTimeline
    \/ SelectStatus
    \/ SelectStakeholder
    \/ RemoveFile

SpecPriority == Init /\ [][NextPriority]_vars

\* ------------------------------------------------------------------ claims

\* The uploaded sheet and its rows.
TheFile == uploaded_file[1]
RawRows == TheFile.rows

\* load_and_process_data returned a frame (no exception inside it).
LoadReturned == uploaded_file # <<>> /\ exception \notin {32, 35, 36, 45, 76, 79}

\* Lines 111-120 ran.
FiltersApplied == uploaded_file # <<>> /\ "stakeholder_filter" \in Range(rendered)

\* The main content ran to its end.
ContentDone == uploaded_file # <<>> /\ "top_tools" \in Range(rendered)

\* What the page shows of the data.
Results ==
    {"metrics", "timeline_chart", "status_pie", "stakeholder_bar", "detail_table",
     "quarterly_distribution", "top_tools", "priority_insights"}

RowsWith(rows, key, value) == {i \in DOMAIN rows : rows[i][key] = value}

RECURSIVE SumOver(_, _)
SumOver(f, S) ==
    IF S = {} THEN 0 ELSE LET x == CHOOSE x \in S : TRUE IN f[x] + SumOver(f, S \ {x})

\* C1: the filtered rows are exactly the rows of df, in order, that satisfy
\* every predicate: Timeline equals the selected quarter unless it is 'All',
\* Status is in the selected set unless the set is empty or holds 'All',
\* Requesting Stakeholder equals the selected one unless it is 'All'; with no
\* restricting predicate the result is df unchanged.
C1_FilterIsConjunction ==
    FiltersApplied =>
        LET Passes(r) ==
                /\ selected_timeline = All \/ r.Timeline = selected_timeline
                /\ selected_status = {} \/ All \in selected_status
                   \/ r.Status \in selected_status
                /\ selected_stakeholder = All \/ r.Stakeholder = selected_stakeholder
        IN  /\ filtered_df = SelectSeq(df, Passes)
            /\ (selected_timeline = All /\ selected_status = {All}
                /\ selected_stakeholder = All) => filtered_df = df

C1_Witness ==
    /\ FiltersApplied
    /\ selected_timeline # All
    /\ selected_status # {} /\ All \notin selected_status
    /\ selected_stakeholder # All
    /\ filtered_df # <<>>
    /\ Len(filtered_df) < Len(df)

\* The filtered rows that have both dates, and the j-th of them.
DatedPositions == {i \in DOMAIN filtered_df : has_dates(filtered_df[i])}
NthDated(j) ==
    CHOOSE i \in DatedPositions : Cardinality({k \in DatedPositions : k < i}) = j - 1

\* C2: gantt_data holds one record for exactly the filtered rows with both
\* dates, in the order of the filtered rows; a row without dates is left out
\* of it and still counted in the total, the status counts, the stakeholder
\* counts and the quarterly distribution.
C2_ChartRowsAndCounts ==
    ContentDone =>
        /\ Len(gantt_data) = Cardinality(DatedPositions)
        /\ \A j \in DOMAIN gantt_data :
            LET r == filtered_df[NthDated(j)]
            IN  /\ gantt_data[j].Full_Name = r.Name
                /\ gantt_data[j].Start = r.Start_Date
                /\ gantt_data[j].Finish = r.End_Date
                /\ gantt_data[j].Resource = r.Stakeholder
                /\ gantt_data[j].Status = r.Status
                /\ gantt_data[j].Tool = r.Tool
                /\ gantt_data[j].Timeline = r.Timeline
        /\ metrics.Total_Items = Len(filtered_df)
        /\ \A i \in DOMAIN filtered_df :
            LET r == filtered_df[i]
            IN  /\ r.Status \in DOMAIN status_counts
                /\ status_counts[r.Status]
                     = Cardinality(RowsWith(filtered_df, "Status", r.Status))
                /\ r.Stakeholder \in DOMAIN stakeholder_counts
                /\ stakeholder_counts[r.Stakeholder]
                     = Cardinality(RowsWith(filtered_df, "Stakeholder", r.Stakeholder))
                /\ \E q \in DOMAIN quarter_dist :
                     quarter_dist[q] =
                        <<r.Timeline, Cardinality(RowsWith(filtered_df, "Timeline", r.Timeline))>>

C2_Witness ==
    /\ ContentDone
    /\ gantt_data # <<>>
    /\ \E i \in DOMAIN filtered_df :
        /\ filtered_df[i].Timeline = Q5_2099
        /\ filtered_df[i].End_Date = NaT
        /\ filtered_df[i].Status = EmptyStr
        /\ \E j \in DOMAIN filtered_df : j > i /\ has_dates(filtered_df[j])

\* The quarter-end dates of the lookup table, as dates.
QuarterEnd ==
    (Q1_2025 :> [y |-> 2025, m |-> 3, d |-> 31]) @@
    (Q2_2025 :> [y |-> 2025, m |-> 6, d |-> 30]) @@
    (Q3_2025 :> [y |-> 2025, m |-> 9, d |-> 30]) @@
    (Q4_2025 :> [y |-> 2025, m |-> 12, d |-> 31]) @@
    (Q1_2026 :> [y |-> 2026, m |-> 3, d |-> 31]) @@
    (Q2_2026 :> [y |-> 2026, m |-> 6, d |-> 30]) @@
    (Q3_2026 :> [y |-> 2026, m |-> 9, d |-> 30]) @@
    (Q4_2026 :> [y |-> 2026, m |-> 12, d |-> 31])

\* start is end moved back exactly three calendar months: the month three
\* before, the same day of the month or that month's last day if it is shorter.
ThreeMonthsBefore(start, end) ==
    /\ start.y * 12 + start.m = end.y * 12 + end.m - 3
    /\ start.m \in 1..12
    /\ start.d = IF end.d < DaysInMonth(start.y, start.m)
                 THEN end.d ELSE DaysInMonth(start.y, start.m)

\* C3: a derived row with one of the 8 recognised labels has the table's
\* quarter-end date as End_Date and End_Date minus exactly 3 calendar months
\* as Start_Date ('Q1 2025': 2025-03-31 and 2024-12-31); a row with any other
\* label is derived too, with both dates undefined.
C3_QuarterDates ==
    LoadReturned =>
        \A i \in DOMAIN df :
            IF df[i].Timeline \in DOMAIN QuarterEnd
            THEN /\ df[i].End_Date = QuarterEnd[df[i].Timeline]
                 /\ ThreeMonthsBefore(df[i].Start_Date, df[i].End_Date)
                 /\ df[i].Timeline = Q1_2025 =>
                        df[i].Start_Date = [y |-> 2024, m |-> 12, d |-> 31]
            ELSE df[i].End_Date = NaT /\ df[i].Start_Date = NaT

C3_Witness ==
    /\ LoadReturned
    /\ exception = 0
    /\ \E i, j \in DOMAIN df :
        /\ df[i].Timeline = Q2_2025
        /\ df[i].Start_Date = [y |-> 2025, m |-> 3, d |-> 30]
        /\ df[j].Timeline = Q5_2099
        /\ df[j].End_Date = NaT

\* C4: when the header lacks a required column, the run ends in the ingest
\* error with nothing of the data shown.
C4_MissingColumnShowsNothing ==
    (/\ uploaded_file # <<>>
     /\ TheFile.readable
     /\ \E k \in Keys : ~HasColumn(strip_columns(TheFile.header), Label[k]))
    => /\ exception # 0 \/ "error" \in Range(rendered)
       /\ Range(rendered) \cap Results = {}

\* C5: the quarterly distribution lists 'Q2 2025' before 'Q1 2026'.
C5_QuartersChronological ==
    \A i, j \in DOMAIN quarter_dist :
        (quarter_dist[i][1] = Q2_2025 /\ quarter_dist[j][1] = Q1_2026) => i < j

\* A name that is missing or empty once its whitespace is trimmed.
BlankName(n) == n = NaN \/ \A i \in DOMAIN n : IsSpace(n[i])

\* C6: the derived rows are exactly the sheet's rows whose name is neither
\* missing nor blank, in order and with the name they had; every derived row
\* has a non-empty name; cleaning the names of the derived rows again changes
\* nothing.
C6_BlankNamesDropped ==
    LoadReturned =>
        /\ {df[i].idx : i \in DOMAIN df}
             = {k - 1 : k \in {k \in DOMAIN RawRows : ~BlankName(RawRows[k].Name)}}
        /\ \A i, j \in DOMAIN df : i < j => df[i].idx < df[j].idx
        /\ \A i \in DOMAIN df :
            /\ df[i].Name = RawRows[df[i].idx + 1].Name
            /\ df[i].Name # EmptyStr /\ df[i].Name # NaN
        /\ nonblank_Name(dropna_Name(df, Label), Label) = df

C6_Witness ==
    /\ LoadReturned
    /\ Len(RawRows) = 2
    /\ RawRows[1].Name = <<" ">>
    /\ Len(df) = 1
    /\ df[1].idx = 1
    /\ df[1].Name = <<" ", "Y", " ">>

ToolsNamed == {filtered_df[i].Tool : i \in DOMAIN filtered_df} \ {EmptyStr}
ToolCount(t) == Cardinality(RowsWith(filtered_df, "Tool", t))
FirstRow(t) == CHOOSE i \in RowsWith(filtered_df, "Tool", t) :
                  \A k \in RowsWith(filtered_df, "Tool", t) : i <= k
Listed == {tool_counts[i][1] : i \in DOMAIN tool_counts}

\* tool_counts lists min(5, number of tools) distinct non-empty names with
\* their counts, in descending order of count, and no name left out has more
\* rows than a name listed.
TopByCount ==
    /\ Len(tool_counts) = (IF Cardinality(ToolsNamed) < TopN
                           THEN Cardinality(ToolsNamed) ELSE TopN)
    /\ Listed \subseteq ToolsNamed
    /\ Cardinality(Listed) = Len(tool_counts)
    /\ \A i \in DOMAIN tool_counts : tool_counts[i][2] = ToolCount(tool_counts[i][1])
    /\ \A i, j \in DOMAIN tool_counts : i < j => tool_counts[i][2] >= tool_counts[j][2]
    /\ \A t \in ToolsNamed \ Listed : \A u \in Listed : ToolCount(t) <= ToolCount(u)

Scored == {i \in DOMAIN filtered_df : filtered_df[i].Priority_Numeric.t = "num"}
ScoreOf == [i \in Scored |-> filtered_df[i].Priority_Numeric.n]

\* C9: the priority statistics cover exactly the rows whose raw score is a
\* number (a text such as 'abc' and a blank cell are not): with such rows the
\* mean is their arithmetic mean and the high-priority count is the number of
\* them strictly above the mean; without such rows no statistics are shown.
C9_PriorityStats ==
    ContentDone =>
        /\ \A i \in DOMAIN filtered_df :
            LET raw == RawRows[filtered_df[i].idx + 1].Score
            IN  /\ raw.t = "num" => filtered_df[i].Priority_Numeric = raw
                /\ (raw.t = "nan" \/ (raw.t = "str" /\ ~IsDigits(raw.s)))
                     => i \notin Scored
        /\ IF Scored # {}
           THEN /\ "priority_insights" \in Range(rendered)
                /\ avg_priority.count = Cardinality(Scored)
                /\ avg_priority.sum = SumOver(ScoreOf, Scored)
                /\ high_priority
                     = Cardinality({i \in Scored :
                          ScoreOf[i] * Cardinality(Scored) > SumOver(ScoreOf, Scored)})
           ELSE "priority_insights" \notin Range(rendered)

C9_Witness ==
    /\ ContentDone
    /\ "priority_insights" \in Range(rendered)
    /\ \E i \in DOMAIN filtered_df :
          RawRows[filtered_df[i].idx + 1].Score = Txt(<<"a", "b", "c">>)
    /\ \E i \in Scored : ScoreOf[i] * avg_priority.count = avg_priority.sum
    /\ \E i \in Scored : ScoreOf[i] * avg_priority.count < avg_priority.sum
    /\ high_priority = 1

\* C10: for a non-empty filtered set the status counts sum to the total and
\* the quarterly counts sum to the total; rows with a missing status or an
\* unrecognised or missing quarter label are counted.
C10_CountsSumToTotal ==
    ContentDone =>
        /\ filtered_df # <<>>
        /\ metrics.Total_Items = Len(filtered_df)
        /\ SumOver(status_counts, DOMAIN status_counts) = metrics.Total_Items
        /\ SumOver([q \in DOMAIN quarter_dist |-> quarter_dist[q][2]], DOMAIN quarter_dist)
             = metrics.Total_Items
        /\ \A q1, q2 \in DOMAIN quarter_dist :
             q1 # q2 => quarter_dist[q1][1] # quarter_dist[q2][1]

C10_Witness ==
    /\ ContentDone
    /\ Len(filtered_df) = 2
    /\ \E i \in DOMAIN filtered_df : RawRows[filtered_df[i].idx + 1].Status = NaN
    /\ \E i \in DOMAIN filtered_df : filtered_df[i].Timeline \notin DOMAIN quarter_mapping
    /\ \E i \in DOMAIN filtered_df : filtered_df[i].Timeline \in DOMAIN quarter_mapping

====
